---- MODULE Spec2Model ----
(***************************************************************************)
(* A model of the chat-ecs crate: the EntityManager (entity.rs), the       *)
(* Archetype column store and the ArchetypeManager (component.rs).         *)
(*                                                                         *)
(* Three specifications share the variables:                               *)
(*   SpecEntity  the EntityManager under with_id/create/destroy/get_loc    *)
(*   Spec        the ArchetypeManager under get_or_insert_with_info and    *)
(*               its lookups                                               *)
(*   SpecRows    one Archetype under insert, row write/read and drop       *)
(***************************************************************************)
EXTENDS Integers, Sequences, FiniteSets, TLC

VARIABLES
    entities,        \* EntityManager.entities : HashMap<Entity, Location>
    entity_next,     \* EntityManager.next : AtomicU32
    free_list,       \* EntityManager.free_list : Vec<Entity>
    eres,            \* what the last EntityManager call returned
    created,         \* history: ids returned by create, no destroy call on them since
    assigned,        \* history: ids returned by with_id, no destroy call on them since
    archetypes,      \* ArchetypeManager.archetypes : HashMap<ArchetypeId, Archetype>
    archetype_next,  \* ArchetypeManager.next : AtomicU32
    index,           \* ArchetypeManager.index : HashMap<Vec<ComponentId>, ArchetypeId>
    component_index, \* ArchetypeManager.component_index : HashMap<ComponentId, Vec<ArchetypeId>>
    ares,            \* what the last ArchetypeManager call returned
    returned,        \* history: component list |-> the id get_or_insert last returned for it
    arch,            \* one Archetype (the `arch` of the crate's test)
    row,             \* the index of the ArchetypeRowMut that insert returned last
    rres,            \* what the last call on arch or on its row cursor returned
    written,         \* history: component type |-> the value last written through row
    dropped,         \* whether arch has been dropped
    drop_log,        \* the destructor and deallocator calls that dropping arch made
    alloc_log        \* the alloc and realloc calls that the last call on arch made

entity_vars == <<entities, entity_next, free_list, eres, created, assigned>>

manager_vars == <<archetypes, archetype_next, index, component_index, ares, returned>>

rows_vars == <<arch, row, rres, written, dropped, drop_log, alloc_log>>

vars == <<entity_vars, manager_vars, rows_vars>>

-----------------------------------------------------------------------------
(* Bounds of the model.                                                    *)

\* Width, in bits, of the model's u32. The source's counters are 32 bits wide;
\* the model keeps the arithmetic (wrapping add, the split of the id space in
\* two halves, the all-ones sentinel) at a width whose wrap-around is reachable.
IdBits == 3

\* Width, in bits, of the model's ArchetypeId counter (a u32 in the source).
ArchIdBits == 2

\* The number of entries the set index may hold before the model stops
\* creating archetypes: the seeded one, one per id of the counter's first
\* round, and one created after the counter has wrapped.
MaxIndex == 5

\* The rows an archetype holds at most, and its largest initial capacity.
MaxRows == 3
MaxInitCap == 4

\* The distinct values of a component type of non-zero size.
NumValues == 2

RECURSIVE Pow2(_)
Pow2(n) == IF n = 0 THEN 1 ELSE 2 * Pow2(n - 1)

-----------------------------------------------------------------------------
(* entity.rs                                                               *)

U32_MAX == Pow2(IdBits) - 1
EXTERNAL_MIN == 0
EXTERNAL_MAX == Pow2(IdBits - 1) - 1
INTERNAL_MIN == Pow2(IdBits - 1)
INTERNAL_MAX == U32_MAX - 1
NULL == U32_MAX

\* AtomicU32::fetch_add(1): the stored value wraps around on overflow
WrappingInc(n) == (n + 1) % Pow2(IdBits)

\* The handles the callers of the model pass to with_id, destroy and get_loc:
\* both ends of the external range, both ends of the internal range.
ProbeIds == {EXTERNAL_MIN, EXTERNAL_MAX, INTERNAL_MIN, NULL}

NoEntity == -1
NoLocation == [archetype |-> -1, index |-> -1]

EntityResult(op, arg, kind, id, loc, was_issued) ==
    [op |-> op, arg |-> arg, kind |-> kind, id |-> id, loc |-> loc,
     was_issued |-> was_issued]

\* impl Default for EntityManager
EntityManagerInit ==
    /\ entities = [e \in {} |-> NoLocation]
    /\ entity_next = INTERNAL_MIN
    /\ free_list = <<>>
    /\ eres = EntityResult("new", NoEntity, "Ok", NoEntity, NoLocation, FALSE)
    /\ created = {}
    /\ assigned = {}

\* EntityManager::with_id, the value it returns
WithIdOutOfBounds(id) == id > EXTERNAL_MAX

WithIdResult(id) ==
    IF WithIdOutOfBounds(id) THEN "OutOfBounds"
    ELSE IF id \in DOMAIN entities THEN "DuplicateID"
    ELSE "Ok"

\* EntityManager::with_id: it reads the live map and changes nothing
WithId(id) ==
    /\ eres' = EntityResult("with_id", id, WithIdResult(id),
                            IF WithIdResult(id) = "Ok" THEN id ELSE NoEntity,
                            NoLocation, id \in created \cup assigned)
    /\ assigned' = IF WithIdResult(id) = "Ok" THEN assigned \cup {id} ELSE assigned
    /\ UNCHANGED <<entities, entity_next, free_list, created>>
    /\ UNCHANGED <<manager_vars, rows_vars>>

\* EntityManager::alloc, the value it returns for the counter value fetched:
\* NonZeroU32::try_from fails on 0 only
AllocResult(e_id) == IF e_id # 0 THEN "Ok" ELSE "Overflow"

\* EntityManager::create
Create ==
    /\ IF free_list # <<>>
       THEN LET ent == free_list[Len(free_list)] IN
            /\ free_list' = SubSeq(free_list, 1, Len(free_list) - 1)
            /\ eres' = EntityResult("create", NoEntity, "Ok", ent, NoLocation,
                                    ent \in created)
            /\ created' = created \cup {ent}
            /\ UNCHANGED <<entities, entity_next, assigned>>
       ELSE LET e_id == entity_next IN
            /\ entity_next' = WrappingInc(entity_next)
            /\ eres' = EntityResult("create", NoEntity, AllocResult(e_id),
                                    IF AllocResult(e_id) = "Ok" THEN e_id ELSE NoEntity,
                                    NoLocation, e_id \in created)
            /\ created' = IF AllocResult(e_id) = "Ok" THEN created \cup {e_id}
                          ELSE created
            /\ UNCHANGED <<entities, free_list, assigned>>
    /\ UNCHANGED <<manager_vars, rows_vars>>

\* EntityManager::destroy, the free list it leaves
DestroyFreeListAlways(entity) == Append(free_list, entity)
DestroyFreeList(entity) ==
    IF entity \in DOMAIN entities THEN Append(free_list, entity) ELSE free_list

\* EntityManager::destroy
Destroy(entity) ==
    /\ entities' = [e \in DOMAIN entities \ {entity} |-> entities[e]]
    /\ free_list' = DestroyFreeList(entity)
    /\ eres' = IF entity \in DOMAIN entities
               THEN EntityResult("destroy", entity, "Ok", entity, entities[entity],
                                 entity \in created \cup assigned)
               ELSE EntityResult("destroy", entity, "DoesNotExist", entity, NoLocation,
                                 entity \in created \cup assigned)
    /\ created' = created \ {entity}
    /\ assigned' = assigned \ {entity}
    /\ UNCHANGED entity_next
    /\ UNCHANGED <<manager_vars, rows_vars>>

\* EntityManager::get_loc
GetLoc(id) ==
    /\ eres' = IF id \in DOMAIN entities
               THEN EntityResult("get_loc", id, "Some", id, entities[id],
                                 id \in created \cup assigned)
               ELSE EntityResult("get_loc", id, "None", NoEntity, NoLocation,
                                 id \in created \cup assigned)
    /\ UNCHANGED <<entities, entity_next, free_list, created, assigned>>
    /\ UNCHANGED <<manager_vars, rows_vars>>

-----------------------------------------------------------------------------
(* component.rs: component types and columns                               *)

\* ComponentId = TypeId. The types of the crate: () and the test's Length and
\* Flow. TypeId's order is the order of these numbers.
UnitId == 0
LengthId == 1
FlowId == 2
ComponentTypes == {UnitId, LengthId, FlowId}

\* Layout::new::<C>().size(): () is zero-sized, Length and Flow wrap an f32
SizeOf(t) == IF t = UnitId THEN 0 ELSE 4

\* needs_drop::<C>(): Length and Flow implement Drop
NeedsDrop(t) == t # UnitId

\* ComponentInfo::of::<C>()
ComponentInfoOf(t) == [id |-> t, size |-> SizeOf(t), drop |-> NeedsDrop(t)]

\* The content of a slot nothing was written to
Uninit == 0

\* The values of type t: a zero-sized type has one value
ValuesOf(t) == IF SizeOf(t) = 0 THEN {1} ELSE 1 .. NumValues

\* The memory behind a column's pointer: one cell per element the allocation
\* has room for; a zero-sized element takes no memory. A request for a
\* non-zero number of bytes is taken to succeed.
FreshCells(size, capacity) ==
    IF size = 0 THEN <<>> ELSE [i \in 1 .. capacity |-> Uninit]

\* ComponentColumn::new: the aligned dangling pointer, nothing allocated
ColumnNew(info) == [info |-> info, data |-> "dangling", cells |-> <<>>]

\* ComponentColumn::with_capacity
ColumnWithCapacity(info, capacity) ==
    IF capacity = 0
    THEN ColumnNew(info)
    ELSE [info |-> info, data |-> "heap", cells |-> FreshCells(info.size, capacity)]

\* A call of the global allocator: alloc(layout of `bytes` bytes), or
\* realloc(ptr, layout of `old_bytes` bytes, bytes), for the column at the
\* 0-based position `column`; ret is "ptr" or "null"
AllocCall(call, column, old_bytes, bytes, ret) ==
    [call |-> call, column |-> column, old_bytes |-> old_bytes, bytes |-> bytes,
     ret |-> ret]

\* ComponentColumn::with_capacity, the allocator call it makes: none for
\* capacity 0, else alloc(size * capacity), whatever the size is. The column
\* exists only if the call returned a pointer.
ColumnWithCapacityCalls(info, capacity, column) ==
    IF capacity = 0 THEN <<>>
    ELSE <<AllocCall("alloc", column, 0, info.size * capacity, "ptr")>>

-----------------------------------------------------------------------------
(* component.rs: Archetype                                                 *)

\* slice::sort_by_key(|info| info.id), a stable sort: insertion of one element
RECURSIVE InsertSorted(_, _)
InsertSorted(sorted, info) ==
    IF sorted = <<>> THEN <<info>>
    ELSE IF sorted[Len(sorted)].id <= info.id THEN Append(sorted, info)
    ELSE Append(InsertSorted(SubSeq(sorted, 1, Len(sorted) - 1), info),
                sorted[Len(sorted)])

RECURSIVE SortByKey(_)
SortByKey(infos) ==
    IF infos = <<>> THEN <<>>
    ELSE InsertSorted(SortByKey(SubSeq(infos, 1, Len(infos) - 1)), infos[Len(infos)])

\* Archetype::from_info_with_capacity
FromInfoWithCapacity(id, infos, capacity) ==
    LET component_info == SortByKey(infos) IN
    [id |-> id,
     entities |-> <<>>,
     capacity |-> capacity,
     component_ids |-> [i \in 1 .. Len(component_info) |-> component_info[i].id],
     components |-> [i \in 1 .. Len(component_info) |->
                        ColumnWithCapacity(component_info[i], capacity)]]

\* Archetype::from_info_with_capacity, the allocator calls it makes: those
\* of with_capacity for the sorted infos, the one at position k (0-based) and
\* the ones after it
RECURSIVE WithCapacityCalls(_, _, _)
WithCapacityCalls(component_info, capacity, k) ==
    IF k >= Len(component_info) THEN <<>>
    ELSE ColumnWithCapacityCalls(component_info[k + 1], capacity, k)
             \o WithCapacityCalls(component_info, capacity, k + 1)

FromInfoWithCapacityCalls(infos, capacity) ==
    WithCapacityCalls(SortByKey(infos), capacity, 0)

\* Archetype::from_info
FromInfo(id, infos) == FromInfoWithCapacity(id, infos, 0)

\* Archetype::len
ArchLen(a) == Len(a.entities)

\* slice::binary_search_by_key over the columns' type ids, as the loop
\*   while left < right { mid = left + size / 2; ... ; size = right - left }
\* with 0-based left, right and result.
RECURSIVE BinarySearchAtLeast(_, _, _, _)
BinarySearchAtLeast(components, id, left, right) ==
    IF left >= right THEN [ok |-> FALSE, index |-> left]
    ELSE LET mid == left + ((right - left) \div 2)
             key == components[mid + 1].info.id
         IN  IF key < id THEN BinarySearchAtLeast(components, id, mid + 1, right)
             ELSE [ok |-> TRUE, index |-> mid]

RECURSIVE BinarySearch(_, _, _, _)
BinarySearch(components, id, left, right) ==
    IF left >= right THEN [ok |-> FALSE, index |-> left]
    ELSE LET mid == left + ((right - left) \div 2)
             key == components[mid + 1].info.id
         IN  IF key < id THEN BinarySearch(components, id, mid + 1, right)
             ELSE IF key > id THEN BinarySearch(components, id, left, mid)
             ELSE [ok |-> TRUE, index |-> mid]

\* Archetype::get_column_index_by_id
GetColumnIndexById(a, id) == BinarySearch(a.components, id, 0, Len(a.components))

\* ComponentColumn::as_ptr::<C>(), its assertion, with C the type t:
\* assert_eq!(self.info.id, TypeId::of::<C>())
AsPtrAssert(col, t) == col.info.id = t

\* The assertion of as_ptr for the column that get_column::<C>() or
\* get_column_mut::<C>() yields; no column, no call of as_ptr
ColumnAsPtrAssert(a, t) ==
    LET found == GetColumnIndexById(a, t) IN
    found.ok => AsPtrAssert(a.components[found.index + 1], t)

\* ArchetypeRowMut::new(archetype, index), its assertion:
\* assert!(index < archetype.len())
RowNewAssert(a, row_index) == row_index < ArchLen(a)

\* The element at slot i (0-based) behind a column's pointer: a zero-sized
\* element is read without touching memory
ColumnCell(col, i) ==
    IF col.info.size = 0 THEN 1
    ELSE IF i + 1 \in DOMAIN col.cells THEN col.cells[i + 1]
    ELSE Uninit

\* Archetype::get_column_as_slice::<C>()[i], for i < len; None for a type the
\* archetype has no column of
NoValue == -1

SliceRead(a, t, i) ==
    LET found == GetColumnIndexById(a, t) IN
    IF found.ok THEN ColumnCell(a.components[found.index + 1], i) ELSE NoValue

\* Archetype::grow, one column: realloc keeps the old contents, alloc starts
\* from a fresh buffer
GrowColumnFresh(col, old_capacity, new_capacity) ==
    [col EXCEPT !.data = "heap",
                !.cells = FreshCells(col.info.size, new_capacity)]

GrowColumn(col, old_capacity, new_capacity) ==
    IF old_capacity > 0
    THEN [col EXCEPT !.data = "heap",
                     !.cells = IF col.info.size = 0 THEN <<>>
                               ELSE [i \in 1 .. new_capacity |->
                                        IF i <= old_capacity THEN col.cells[i]
                                        ELSE Uninit]]
    ELSE [col EXCEPT !.data = "heap",
                     !.cells = FreshCells(col.info.size, new_capacity)]

\* "reserve at least 8 places"
MinCapacity == 8

Max(a, b) == IF a >= b THEN a ELSE b

\* Archetype::grow, one column: the allocator call it makes, realloc when
\* there was a capacity and alloc when there was none, whatever the size is
GrowColumnCall(col, column, old_capacity, new_capacity, ret) ==
    IF old_capacity > 0
    THEN AllocCall("realloc", column, col.info.size * old_capacity,
                   col.info.size * new_capacity, ret)
    ELSE AllocCall("alloc", column, 0, col.info.size * new_capacity, ret)

\* Archetype::grow, the capacity it grows to
GrowNewCapacityDouble(old_capacity) ==
    IF old_capacity = 0 THEN MinCapacity ELSE old_capacity * 2

GrowNewCapacity(old_capacity) == Max(old_capacity * 2, MinCapacity)

\* Archetype::grow
Grow(a) ==
    LET old_capacity == a.capacity
        new_capacity == GrowNewCapacity(old_capacity)
    IN  [a EXCEPT !.components = [k \in 1 .. Len(a.components) |->
                                     GrowColumn(a.components[k], old_capacity,
                                                new_capacity)],
                  !.capacity = new_capacity]

\* Archetype::grow, the allocator calls it makes, one per column
GrowCalls(a) ==
    [k \in 1 .. Len(a.components) |->
        GrowColumnCall(a.components[k], k - 1, a.capacity,
                       GrowNewCapacity(a.capacity), "ptr")]

\* The columns (0-based) for which grow asks the allocator for zero bytes.
\* The allocator's contract leaves the outcome of such a call open: it
\* returns a pointer or null
ZeroSizeColumns(a) ==
    {k \in 0 .. Len(a.components) - 1 : a.components[k + 1].info.size = 0}

\* Archetype::grow when the call for column k returns null:
\* NonNull::new(ptr).unwrap() panics after the columns before k were grown
\* and before self.capacity is set
GrowPanics(a, k) ==
    [a EXCEPT !.components = [j \in 1 .. Len(a.components) |->
                                 IF j - 1 < k
                                 THEN GrowColumn(a.components[j], a.capacity,
                                                 GrowNewCapacity(a.capacity))
                                 ELSE a.components[j]]]

GrowPanicsCalls(a, k) ==
    [j \in 1 .. k + 1 |->
        GrowColumnCall(a.components[j], j - 1, a.capacity,
                       GrowNewCapacity(a.capacity),
                       IF j - 1 < k THEN "ptr" ELSE "null")]

\* Archetype::insert, the test that triggers growth
InsertGrowsWhenOver(a) == ArchLen(a) > a.capacity
InsertGrows(a) == ArchLen(a) + 1 > a.capacity \div 2

\* Archetype::insert, the archetype it leaves; the cursor it returns is at
\* new_index = the length before the push
ArchInsert(a, entity) ==
    LET grown == IF InsertGrows(a) THEN Grow(a) ELSE a
    IN  [grown EXCEPT !.entities = Append(@, entity)]

\* ArchetypeRowMut::write, the store: ptr = column.as_ptr_mut().add(index);
\* ptr.write(value)
ColumnWriteFirst(col, row_index, value) ==
    IF col.info.size = 0 THEN col
    ELSE [col EXCEPT !.cells[1] = value]

ColumnWrite(col, row_index, value) ==
    IF col.info.size = 0 THEN col
    ELSE [col EXCEPT !.cells[row_index + 1] = value]

\* ArchetypeRowMut::write, the archetype it leaves
RowWriteAtInsertionPoint(a, row_index, t, value) ==
    LET found == GetColumnIndexById(a, t) IN
    IF found.index < Len(a.components)
    THEN [a EXCEPT !.components[found.index + 1] =
                       ColumnWrite(a.components[found.index + 1], row_index, value)]
    ELSE a

RowWrite(a, row_index, t, value) ==
    LET found == GetColumnIndexById(a, t) IN
    IF found.ok
    THEN [a EXCEPT !.components[found.index + 1] =
                       ColumnWrite(a.components[found.index + 1], row_index, value)]
    ELSE a

\* impl Drop for Archetype: `let size = self.len()`, the number of elements
\* each column's destructor loop visits
DropCountCapacity(a) == a.capacity
DropCount(a) == ArchLen(a)

\* impl Drop for Archetype, one column (k is its 0-based position): the calls
\* d(data), d(data + size), ... and then dealloc(data, size * capacity)
DropColumn(a, k) ==
    LET col == a.components[k + 1]
        drops == IF col.info.drop
                 THEN [i \in 1 .. DropCount(a) |->
                          [call |-> "drop_in_place", column |-> k,
                           offset |-> (i - 1) * col.info.size,
                           cell |-> ColumnCell(col, i - 1),
                           bytes |-> 0, data |-> col.data]]
                 ELSE <<>>
        release == IF col.info.size > 0
                   THEN <<[call |-> "dealloc", column |-> k, offset |-> 0,
                           cell |-> Uninit,
                           bytes |-> col.info.size * a.capacity, data |-> col.data]>>
                   ELSE <<>>
    IN  drops \o release

\* impl Drop for Archetype: the calls it makes, column after column
RECURSIVE DropCalls(_, _)
DropCalls(a, k) ==
    IF k >= Len(a.components) THEN <<>>
    ELSE DropColumn(a, k) \o DropCalls(a, k + 1)

-----------------------------------------------------------------------------
(* component.rs: ArchetypeManager                                          *)

\* The longest component list a Bundle yields: impl Bundle for (C0, C1)
MaxListLen == 2

\* The component lists the callers of the model request: every list of at most
\* MaxListLen of the types Length and Flow, in every order and with a type
\* repeated, the empty list among them; the list <<()>> that the registry is
\* seeded with; and a list that puts () after a type of non-zero size
ComponentLists ==
    UNION {[1 .. n -> {LengthId, FlowId}] : n \in 0 .. MaxListLen}
        \cup {<<UnitId>>, <<LengthId, UnitId>>}

InfoOf(list) == [i \in 1 .. Len(list) |-> ComponentInfoOf(list[i])]

NoArchetypeId == -1

\* AtomicU32::fetch_add(1) on the ArchetypeId counter
ArchWrappingInc(n) == (n + 1) % Pow2(ArchIdBits)

ManagerResult(op, ids, kind, id, hit, list) ==
    [op |-> op, ids |-> ids, kind |-> kind, id |-> id, hit |-> hit,
     list |-> list]

\* impl Default for ArchetypeManager
ArchetypeManagerInitEmptyKey ==
    /\ archetypes = (0 :> FromInfo(0, <<ComponentInfoOf(UnitId)>>))
    /\ archetype_next = 1
    /\ index = (<<>> :> 0)
    /\ component_index = (UnitId :> <<0>>)
    /\ ares = ManagerResult("new", <<>>, "Ok", NoArchetypeId, FALSE, <<>>)
    /\ returned = [l \in {} |-> NoArchetypeId]

ArchetypeManagerInit ==
    /\ archetypes = (0 :> FromInfo(0, <<ComponentInfoOf(UnitId)>>))
    /\ archetype_next = 1
    /\ index = (<<UnitId>> :> 0)
    /\ component_index = (UnitId :> <<0>>)
    /\ ares = ManagerResult("new", <<>>, "Ok", NoArchetypeId, FALSE, <<>>)
    /\ returned = [l \in {} |-> NoArchetypeId]

\* get_or_insert_with_info: self.index.get(&ids), with ids in the order requested
IndexGetNone(ids) == NoArchetypeId
IndexGet(ids) == IF ids \in DOMAIN index THEN index[ids] ELSE NoArchetypeId

\* get_or_insert_with_info: the loop over &ids that pushes arch_id onto the
\* component index entry of every requested id, in the order requested
RECURSIVE ComponentIndexPush(_, _, _)
ComponentIndexPush(ci, ids, arch_id) ==
    IF ids = <<>> THEN ci
    ELSE LET comp_id == ids[1]
             pushed == IF comp_id \in DOMAIN ci
                       THEN [ci EXCEPT ![comp_id] = Append(@, arch_id)]
                       ELSE (comp_id :> <<arch_id>>) @@ ci
         IN  ComponentIndexPush(pushed, SubSeq(ids, 2, Len(ids)), arch_id)

\* get_or_insert_with_info: archetypes.entry(arch_id).or_insert_with_key(..)
ArchetypesEntryOrInsert(arch_id, info) ==
    IF arch_id \in DOMAIN archetypes
    THEN archetypes
    ELSE (arch_id :> FromInfo(arch_id, info)) @@ archetypes

\* ArchetypeManager::get_or_insert_with_info
GetOrInsertWithInfo(info) ==
    LET ids == [i \in 1 .. Len(info) |-> info[i].id]
        hit == IndexGet(ids)
    IN  /\ IF hit # NoArchetypeId
           THEN /\ ares' = ManagerResult("get_or_insert", ids, "Ok",
                                         archetypes[hit].id, TRUE, <<>>)
                /\ returned' = (ids :> archetypes[hit].id) @@ returned
                /\ UNCHANGED <<archetypes, archetype_next, index, component_index>>
           ELSE LET id == archetype_next IN
                /\ archetype_next' = ArchWrappingInc(archetype_next)
                /\ IF id = 0
                   THEN \* panic!("Too many Archetypes")
                        /\ ares' = ManagerResult("get_or_insert", ids, "Panic",
                                                 NoArchetypeId, FALSE, <<>>)
                        /\ UNCHANGED <<archetypes, index, component_index, returned>>
                   ELSE /\ archetypes' = ArchetypesEntryOrInsert(id, info)
                        /\ component_index' =
                               ComponentIndexPush(component_index, ids, id)
                        /\ index' = (ids :> id) @@ index
                        /\ ares' = ManagerResult("get_or_insert", ids, "Ok",
                                                 archetypes'[id].id, FALSE, <<>>)
                        /\ returned' = (ids :> archetypes'[id].id) @@ returned
        /\ UNCHANGED <<entity_vars, rows_vars>>

\* ArchetypeManager::query_component, the value it returns (<<>> with kind
\* "None" stands for None)
QueryComponentResult(t) ==
    IF t \in DOMAIN component_index
    THEN [kind |-> "Some", list |-> component_index[t]]
    ELSE [kind |-> "None", list |-> <<>>]

\* ArchetypeManager::query_component
QueryComponent(t) ==
    /\ ares' = ManagerResult("query_component", <<t>>, QueryComponentResult(t).kind,
                             NoArchetypeId, FALSE, QueryComponentResult(t).list)
    /\ UNCHANGED <<archetypes, archetype_next, index, component_index, returned>>
    /\ UNCHANGED <<entity_vars, rows_vars>>

-----------------------------------------------------------------------------
(* The archetype `arch` and its row cursor                                 *)

NoRow == -1
NoType == -1

\* The entity the callers of the model insert into a: the ids that
\* EntityManager::create hands out, one after the other
RowEntity(a) == INTERNAL_MIN + ArchLen(a)

RowResult(op, type, val, row_index, grew) ==
    [op |-> op, type |-> type, val |-> val, index |-> row_index, grew |-> grew]

NoWrites == [t \in {} |-> NoValue]

\* No archetype under test: the state of arch in the specifications of the
\* two managers
RowsIdle ==
    /\ arch = FromInfo(0, <<>>)
    /\ row = NoRow
    /\ rres = RowResult("none", NoType, NoValue, NoRow, FALSE)
    /\ written = NoWrites
    /\ dropped = FALSE
    /\ drop_log = <<>>
    /\ alloc_log = <<>>

\* arch = Archetype::from_info_with_capacity(ArchetypeId(1), info, capacity)
RowsInit ==
    /\ \E list \in ComponentLists : \E capacity \in 0 .. MaxInitCap :
           /\ arch = FromInfoWithCapacity(1, InfoOf(list), capacity)
           /\ alloc_log = FromInfoWithCapacityCalls(InfoOf(list), capacity)
    /\ row = NoRow
    /\ rres = RowResult("new", NoType, NoValue, NoRow, FALSE)
    /\ written = NoWrites
    /\ dropped = FALSE
    /\ drop_log = <<>>

\* let mut row = arch.insert(entity)
Insert(entity) ==
    /\ ~dropped
    /\ ArchLen(arch) < MaxRows
    /\ arch' = ArchInsert(arch, entity)
    /\ IF RowNewAssert(arch', ArchLen(arch))
       THEN /\ row' = ArchLen(arch)
            /\ rres' = RowResult("insert", NoType, NoValue, ArchLen(arch),
                                 InsertGrows(arch))
       ELSE /\ row' = NoRow
            /\ rres' = RowResult("assert_panic", NoType, NoValue, ArchLen(arch),
                                 InsertGrows(arch))
    /\ written' = NoWrites
    /\ alloc_log' = IF InsertGrows(arch) THEN GrowCalls(arch) ELSE <<>>
    /\ UNCHANGED <<dropped, drop_log>>
    /\ UNCHANGED <<entity_vars, manager_vars>>

\* arch.insert(entity) when grow's zero-byte request for column k returns
\* null: grow panics, the entity is not pushed and no cursor is returned
InsertPanics(k) ==
    /\ ~dropped
    /\ ArchLen(arch) < MaxRows
    /\ InsertGrows(arch)
    /\ k \in ZeroSizeColumns(arch)
    /\ arch' = GrowPanics(arch, k)
    /\ alloc_log' = GrowPanicsCalls(arch, k)
    /\ row' = NoRow
    /\ rres' = RowResult("insert_panic", NoType, NoValue, NoRow, TRUE)
    /\ written' = NoWrites
    /\ UNCHANGED <<dropped, drop_log>>
    /\ UNCHANGED <<entity_vars, manager_vars>>

\* row.write::<C>(value), with C the type t
Write(t, value) ==
    /\ ~dropped
    /\ row # NoRow
    /\ IF ColumnAsPtrAssert(arch, t)
       THEN /\ arch' = RowWrite(arch, row, t, value)
            /\ rres' = RowResult("write", t, SliceRead(arch', t, row), row, FALSE)
            /\ written' = IF GetColumnIndexById(arch, t).ok
                          THEN (t :> value) @@ written
                          ELSE written
       ELSE /\ rres' = RowResult("assert_panic", t, NoValue, row, FALSE)
            /\ UNCHANGED <<arch, written>>
    /\ alloc_log' = <<>>
    /\ UNCHANGED <<row, dropped, drop_log>>
    /\ UNCHANGED <<entity_vars, manager_vars>>

\* row.read::<C>(), with C the type t
Read(t) ==
    /\ ~dropped
    /\ row # NoRow
    /\ rres' = IF ColumnAsPtrAssert(arch, t) /\ RowNewAssert(arch, row)
               THEN RowResult("read", t, SliceRead(arch, t, row), row, FALSE)
               ELSE RowResult("assert_panic", t, NoValue, row, FALSE)
    /\ alloc_log' = <<>>
    /\ UNCHANGED <<arch, row, written, dropped, drop_log>>
    /\ UNCHANGED <<entity_vars, manager_vars>>

\* drop(arch): arch keeps the value it had when the drop ran
DropArchetype ==
    /\ ~dropped
    /\ dropped' = TRUE
    /\ drop_log' = DropCalls(arch, 0)
    /\ row' = NoRow
    /\ rres' = RowResult("drop", NoType, NoValue, NoRow, FALSE)
    /\ alloc_log' = <<>>
    /\ UNCHANGED <<arch, written>>
    /\ UNCHANGED <<entity_vars, manager_vars>>

-----------------------------------------------------------------------------
(* The specifications                                                      *)

EntityNext ==
    \/ \E id \in ProbeIds : WithId(id)
    \/ Create
    \/ \E e \in ProbeIds : Destroy(e)
    \/ \E e \in ProbeIds : GetLoc(e)

\* A component list the model may request: one the set index holds, or any
\* while the index has room
MayRequest(list) ==
    list \in DOMAIN index \/ Cardinality(DOMAIN index) < MaxIndex

Next ==
    \/ \E list \in ComponentLists :
           MayRequest(list) /\ GetOrInsertWithInfo(InfoOf(list))
    \/ \E t \in ComponentTypes : QueryComponent(t)

RowsNext ==
    \/ Insert(RowEntity(arch))
    \/ \E k \in 0 .. MaxListLen - 1 : InsertPanics(k)
    \/ \E t \in ComponentTypes : \E v \in ValuesOf(t) : Write(t, v)
    \/ \E t \in ComponentTypes : Read(t)
    \/ DropArchetype

Init == EntityManagerInit /\ ArchetypeManagerInit /\ RowsIdle

InitRows == EntityManagerInit /\ ArchetypeManagerInit /\ RowsInit

Spec == Init /\ [][Next]_vars

SpecEntity == Init /\ [][EntityNext]_vars

SpecRows == InitRows /\ [][RowsNext]_vars

-----------------------------------------------------------------------------
(* Claims about the EntityManager, checked under SpecEntity.               *)

\* C3: an identifier returned by create is never equal to an identifier
\* returned by an earlier create that has not been destroyed since, for every
\* sequence of create and destroy calls, also one that exhausts the counter.
C3_CreateReturnsFreshId ==
    (eres.op = "create" /\ eres.kind = "Ok") => ~eres.was_issued

\* C8: with_id(id) returns OutOfBounds for every id above EXTERNAL_MAX,
\* DuplicateID whenever id is already live (an earlier with_id(id) succeeded
\* and id has not been destroyed since), and Entity(id) only otherwise.
C8_WithIdValidates ==
    eres.op = "with_id" =>
        /\ eres.arg > EXTERNAL_MAX => eres.kind = "OutOfBounds"
        /\ (eres.arg <= EXTERNAL_MAX /\ eres.was_issued) => eres.kind = "DuplicateID"
        /\ (eres.arg <= EXTERNAL_MAX /\ ~eres.was_issued) =>
               (eres.kind = "Ok" /\ eres.id = eres.arg)

\* C9: destroy(e) for an identifier that was never created, or that has been
\* destroyed already, returns DoesNotExist(e) and leaves the live map, the free
\* list and the id counter unchanged; the free list never holds an identifier
\* twice.
C9_DestroyMissingIsError ==
    [][(eres'.op = "destroy" /\ ~eres'.was_issued) =>
          /\ eres'.kind = "DoesNotExist"
          /\ eres'.id = eres'.arg
          /\ entities' = entities
          /\ free_list' = free_list
          /\ entity_next' = entity_next
          /\ \A i, j \in 1 .. Len(free_list') :
                 free_list'[i] = free_list'[j] => i = j]_vars

\* C9's case: INTERNAL_MIN was handed out by create, a destroy call was made
\* on it, and a further destroy of it reports DoesNotExist.
C9_Witness ==
    /\ eres.op = "destroy"
    /\ eres.arg = INTERNAL_MIN
    /\ ~eres.was_issued
    /\ eres.kind = "DoesNotExist"
    /\ entity_next # INTERNAL_MIN

\* C10: after create or with_id returned e and until e is destroyed, e is
\* live: it is in the live map, get_loc(e) returns its location, and destroy(e)
\* succeeds, removes the mapping and pushes e onto the free list.
C10_IssuedIsLive ==
    /\ \A e \in created \cup assigned : e \in DOMAIN entities
    /\ (eres.op = "get_loc" /\ eres.was_issued) => eres.kind = "Some"
    /\ (eres.op = "destroy" /\ eres.was_issued) =>
           /\ eres.kind = "Ok"
           /\ eres.arg \notin DOMAIN entities
           /\ free_list # <<>>
           /\ free_list[Len(free_list)] = eres.arg

\* C12: every identifier returned by create lies in the internal range
\* INTERNAL_MIN .. INTERNAL_MAX, so it is never the sentinel NULL and never an
\* identifier of the external range; and once the counter has passed its
\* maximum (it no longer holds a value of the internal range or the sentinel),
\* the create that took it there failed, as does every later one.
C12_CreateInInternalRange ==
    eres.op = "create" =>
        /\ eres.kind = "Ok" => eres.id \in INTERNAL_MIN .. INTERNAL_MAX
        /\ entity_next \notin INTERNAL_MIN .. U32_MAX => eres.kind = "Overflow"

-----------------------------------------------------------------------------
(* Claims about the ArchetypeManager, checked under Spec.                  *)

Range(seq) == {seq[i] : i \in DOMAIN seq}

\* C1: for any two component types A and B, get_or_insert requested with
\* (A, B) and with (B, A) return the archetype with the same ArchetypeId,
\* whichever is called first; no two archetypes of the registry hold the same
\* (sorted) list of component types.
C1_OrderInsensitive ==
    /\ \A a, b \in ComponentTypes :
           (<<a, b>> \in DOMAIN returned /\ <<b, a>> \in DOMAIN returned) =>
               returned[<<a, b>>] = returned[<<b, a>>]
    /\ \A i, j \in DOMAIN archetypes :
           archetypes[i].component_ids = archetypes[j].component_ids => i = j

\* C2: a second get_or_insert_with_info call with the same component list
\* returns the same ArchetypeId as the first and leaves the archetype map, the
\* set index, the component index and the id counter unchanged.
C2_SecondCallIsLookup ==
    [][(ares'.op = "get_or_insert" /\ ares'.ids \in DOMAIN returned) =>
          /\ ares'.kind = "Ok"
          /\ ares'.id = returned[ares'.ids]
          /\ archetypes' = archetypes
          /\ index' = index
          /\ component_index' = component_index
          /\ archetype_next' = archetype_next]_vars

\* C2's case: (Length, Flow), which the registry is not seeded with, was
\* requested before and this request found it in the set index.
C2_Witness ==
    /\ ares.op = "get_or_insert"
    /\ ares.ids = <<LengthId, FlowId>>
    /\ ares.hit
    /\ ares.id = returned[<<LengthId, FlowId>>]
    /\ Cardinality(DOMAIN archetypes) >= 3

\* The archetypes of the registry whose component list contains t
Holders(t) == {id \in DOMAIN archetypes : t \in Range(archetypes[id].component_ids)}

Occurrences(seq, x) == Cardinality({i \in DOMAIN seq : seq[i] = x})

\* C7: for every component type T, query_component(T) lists the id of every
\* archetype whose component set contains T exactly once and lists no other
\* archetype; it is absent only when no archetype holds T.
C7_ComponentIndexExact ==
    \A t \in ComponentTypes :
        LET q == QueryComponentResult(t) IN
        /\ q.kind = "None" => Holders(t) = {}
        /\ q.kind = "Some" =>
               /\ \A id \in Holders(t) : Occurrences(q.list, id) = 1
               /\ Range(q.list) \subseteq Holders(t)

\* C13, as claimed: a fresh ArchetypeManager holds exactly one archetype, at
\* id 0, whose component set is empty; that archetype exists in every
\* reachable state; and requesting the empty component list through
\* get_or_insert_with_info returns the archetype with id 0 and creates none.
C13_EmptyArchetypeSeeded ==
    /\ ares.op = "new" => DOMAIN archetypes = {0}
    /\ 0 \in DOMAIN archetypes
    /\ Range(archetypes[0].component_ids) = {}
    /\ (ares.op = "get_or_insert" /\ ares.ids = <<>>) =>
           (ares.kind = "Ok" /\ ares.id = 0 /\ ares.hit)

\* C13, amended: a fresh ArchetypeManager holds exactly one archetype, at id
\* 0, whose component list is the single unit type (); that archetype exists,
\* unchanged, in every reachable state; and requesting the list [()] through
\* get_or_insert_with_info returns the archetype with id 0 and leaves the
\* archetype map, the set index and the id counter as they were.
C13_UnitArchetypeSeeded ==
    /\ [](/\ ares.op = "new" => DOMAIN archetypes = {0}
          /\ 0 \in DOMAIN archetypes
          /\ archetypes[0] = FromInfo(0, <<ComponentInfoOf(UnitId)>>)
          /\ archetypes[0].component_ids = <<UnitId>>)
    /\ [][(ares'.op = "get_or_insert" /\ ares'.ids = <<UnitId>>) =>
             /\ ares'.kind = "Ok"
             /\ ares'.id = 0
             /\ archetypes' = archetypes
             /\ index' = index
             /\ archetype_next' = archetype_next]_vars

\* C13's case: [()] is requested after other archetypes were created, and the
\* seeded archetype is returned.
C13_Witness ==
    /\ ares.op = "get_or_insert"
    /\ ares.ids = <<UnitId>>
    /\ ares.id = 0
    /\ Cardinality(DOMAIN archetypes) >= 3

\* The keys of the set index that map to the archetype id
IndexKeysOf(id) == {l \in DOMAIN index : index[l] = id}

\* C15: the set index and the archetype map are in one-to-one correspondence:
\* every archetype id of the archetype map is the value of exactly one entry
\* of the set index, and every value of the set index is an id of the
\* archetype map.
C15_IndexOneToOne ==
    /\ \A id \in DOMAIN archetypes : Cardinality(IndexKeysOf(id)) = 1
    /\ \A l \in DOMAIN index : index[l] \in DOMAIN archetypes

\* C16: every archetype created through get_or_insert_with_info, also for a
\* list that names a type twice, has a strictly ascending list of component
\* ids, exactly one column per distinct type, and its i-th column records the
\* i-th component id.
C16_ColumnsSortedDistinct ==
    \A id \in DOMAIN archetypes :
        LET a == archetypes[id] IN
        /\ \A i, j \in DOMAIN a.component_ids :
               i < j => a.component_ids[i] < a.component_ids[j]
        /\ Len(a.components) = Cardinality(Range(a.component_ids))
        /\ \A i \in DOMAIN a.components :
               a.components[i].info.id = a.component_ids[i]

\* C22: every archetype that get_or_insert_with_info creates receives an id
\* other than the reserved id 0 and other than the id of every archetype the
\* registry already holds, for every sequence of calls; when the id counter
\* would wrap the call fails, and no later call assigns an id that is in use.
C22_FreshArchetypeId ==
    [][(ares'.op = "get_or_insert" /\ ares'.kind = "Ok" /\ ~ares'.hit) =>
          /\ ares'.id # 0
          /\ ares'.id \notin DOMAIN archetypes
          /\ \A l \in DOMAIN index : index[l] # ares'.id]_vars

\* C23: get_or_insert_with_info updates the registry as one step. When it
\* creates an archetype (the request missed the set index and the call
\* returned), the archetype map holds the new archetype with the requested
\* types under the returned id, the set index maps the requested list to that
\* id, and the component index entry of every requested type lists that id;
\* when it fails on id exhaustion, none of the three maps is changed.
C23_RegistryUpdatedAsOneStep ==
    [][ares'.op = "get_or_insert" =>
          /\ (ares'.kind = "Ok" /\ ~ares'.hit) =>
                 /\ archetypes' # archetypes
                 /\ ares'.id \in DOMAIN archetypes'
                 /\ Range(archetypes'[ares'.id].component_ids) = Range(ares'.ids)
                 /\ ares'.ids \in DOMAIN index'
                 /\ index'[ares'.ids] = ares'.id
                 /\ \A t \in Range(ares'.ids) :
                        /\ t \in DOMAIN component_index'
                        /\ ares'.id \in Range(component_index'[t])
          /\ ares'.kind = "Panic" =>
                 /\ archetypes' = archetypes
                 /\ index' = index
                 /\ component_index' = component_index]_vars

-----------------------------------------------------------------------------
(* Claims about one Archetype, checked under SpecRows.                     *)

\* C4: after insert returned a row cursor, a value written for a type through
\* the cursor is the value read for that type through the same cursor, for
\* every column of the row, whatever was written to the row's other columns.
C4_WriteReadRoundTrip ==
    /\ row # NoRow => \A t \in DOMAIN written : SliceRead(arch, t, row) = written[t]
    /\ (rres.op \in {"read", "write"} /\ rres.type \in DOMAIN written) =>
           rres.val = written[rres.type]

\* C4's case: in a row other than the first, Length and Flow were written
\* different values and Length is read back.
C4_Witness ==
    /\ rres.op = "read"
    /\ rres.type = LengthId
    /\ row >= 1
    /\ LengthId \in DOMAIN written
    /\ FlowId \in DOMAIN written
    /\ written[LengthId] # written[FlowId]
    /\ rres.val = written[LengthId]

\* C5: when insert triggers growth, every value written before at row i of
\* every column is read back unchanged at row i after the growth, and the
\* entity list is the old one with the inserted entity appended.
C5_GrowthPreservesRows ==
    [][(rres'.op = "insert" /\ rres'.grew /\ arch' # arch) =>
          /\ Len(arch'.components) = Len(arch.components)
          /\ \A k \in 1 .. Len(arch.components) : \A i \in 0 .. ArchLen(arch) - 1 :
                 ColumnCell(arch'.components[k], i) = ColumnCell(arch.components[k], i)
          /\ \A t \in ComponentTypes : \A i \in 0 .. ArchLen(arch) - 1 :
                 SliceRead(arch', t, i) = SliceRead(arch, t, i)
          /\ ArchLen(arch') = ArchLen(arch) + 1
          /\ SubSeq(arch'.entities, 1, ArchLen(arch)) = arch.entities]_vars

\* C5's case: an insert grew an archetype that held a row with a written value.
C5_Witness ==
    /\ rres.op = "insert"
    /\ rres.grew
    /\ rres.index >= 1
    /\ \E k \in 1 .. Len(arch.components) :
           /\ arch.components[k].info.size > 0
           /\ arch.components[k].cells[1] # Uninit

\* The destructor calls dropping arch made on column k (0-based), in order
DestructorCalls(k) ==
    LET OnColumn(c) == c.call = "drop_in_place" /\ c.column = k
    IN  SelectSeq(drop_log, OnColumn)

\* C6: dropping an archetype that holds n rows invokes the destructor of each
\* column whose type needs teardown exactly n times, once for each row
\* 0 .. n-1 in index order, and never for a slot at index >= n, whatever the
\* capacity is; a column whose type needs no teardown gets no destructor call.
C6_DropRunsDestructorPerRow ==
    dropped =>
        \A k \in 0 .. Len(arch.components) - 1 :
            LET col == arch.components[k + 1]
                calls == DestructorCalls(k)
            IN  IF col.info.drop
                THEN /\ Len(calls) = ArchLen(arch)
                     /\ \A i \in 1 .. Len(calls) :
                            calls[i].offset = (i - 1) * col.info.size
                ELSE calls = <<>>

\* C6's case: an archetype with two rows or more, and room for more rows than
\* it holds, was dropped and destructors ran.
C6_Witness ==
    /\ dropped
    /\ ArchLen(arch) >= 2
    /\ arch.capacity > ArchLen(arch)
    /\ \E i \in DOMAIN drop_log :
           drop_log[i].call = "drop_in_place" /\ drop_log[i].offset > 0

\* C14: a component type the archetype has no column of is reported as
\* absent: the column lookup fails and the slice is None for it, and a row
\* read or write of it returns None, raises no panic and leaves the archetype
\* (its rows, its capacity, every column's contents) as it was.
C14_AbsentTypeIsNone ==
    /\ [](\A t \in ComponentTypes \ Range(arch.component_ids) :
              /\ ~GetColumnIndexById(arch, t).ok
              /\ \A i \in 0 .. MaxRows : SliceRead(arch, t, i) = NoValue)
    /\ [][(/\ rres'.type \in ComponentTypes
           /\ rres'.type \notin Range(arch.component_ids)) =>
             /\ rres'.op \in {"read", "write"}
             /\ rres'.val = NoValue
             /\ arch' = arch
             /\ row' = row]_vars

\* C14's case: Length is written through the cursor of a row of an archetype
\* that has a Flow column and no Length column.
C14_Witness ==
    /\ rres.op = "write"
    /\ rres.type = LengthId
    /\ rres.val = NoValue
    /\ arch.component_ids = <<FlowId>>
    /\ ArchLen(arch) >= 1

C18_RowsInitialised ==
    /\ \A k \in 1 .. Len(arch.components) : \A i \in 0 .. ArchLen(arch) - 1 :
           ColumnCell(arch.components[k], i) # Uninit
    /\ \A i \in DOMAIN drop_log :
           drop_log[i].call = "drop_in_place" => drop_log[i].cell # Uninit
    /\ (rres.op = "read" /\ rres.val # NoValue) => rres.val # Uninit

\* C19, as claimed: insert triggers growth exactly when the row count plus
\* one exceeds half of the capacity, at most once per insert; growth doubles
\* the capacity, and the floor of 8 applies to a zero capacity only, so that a
\* capacity c > 0 becomes exactly 2 * c.
C19_GrowthDoubles ==
    [][rres'.op = "insert" =>
          LET c == arch.capacity
              grows == ArchLen(arch) + 1 > c \div 2
          IN  /\ rres'.grew = grows
              /\ Len(alloc_log') = IF grows THEN Len(arch.components) ELSE 0
              /\ arch'.capacity = IF ~grows THEN c
                                  ELSE IF c = 0 THEN 8 ELSE 2 * c]_vars

\* C19, amended: insert triggers growth exactly when the row count plus one
\* exceeds half of the capacity, at most once per insert (one allocator call
\* per column); growth takes a capacity c to the larger of 2 * c and 8, so
\* that a capacity of 4 or more becomes exactly 2 * c and a capacity below 4
\* becomes 8.
C19_GrowthDoublesWithFloor ==
    [][rres'.op = "insert" =>
          LET c == arch.capacity
              grows == ArchLen(arch) + 1 > c \div 2
          IN  /\ rres'.grew = grows
              /\ Len(alloc_log') = IF grows THEN Len(arch.components) ELSE 0
              /\ arch'.capacity = IF ~grows THEN c
                                  ELSE IF c >= 4 THEN 2 * c ELSE 8]_vars

\* C19's case: an insert grew an archetype whose capacity was 1, 2 or 3, and
\* the capacity is 8 now.
C19_Witness ==
    /\ rres.op = "insert"
    /\ rres.grew
    /\ arch.capacity = 8
    /\ alloc_log # <<>>
    /\ LET last == alloc_log[Len(alloc_log)] IN
       /\ last.call = "realloc"
       /\ last.old_bytes \in {4, 8, 12}
       /\ last.bytes = 32

\* C20: for a column whose element type has size zero no allocation and no
\* deallocation is ever requested: neither with_capacity, nor a growth that
\* insert triggers, nor dropping the archetype issues an alloc, realloc or
\* dealloc call for that column.
C20_ZeroSizeNeverAllocates ==
    /\ \A i \in DOMAIN alloc_log :
           arch.components[alloc_log[i].column + 1].info.size # 0
    /\ \A i \in DOMAIN drop_log :
           drop_log[i].call = "dealloc" =>
               arch.components[drop_log[i].column + 1].info.size # 0

\* The dealloc calls dropping arch made for column k (0-based), in order
DeallocCalls(k) ==
    LET OnColumn(c) == c.call = "dealloc" /\ c.column = k
    IN  SelectSeq(drop_log, OnColumn)

\* C21: dropping an archetype releases the buffer of a column if and only if
\* the column owns an allocation, exactly once and with the size the buffer
\* was last allocated or grown to; the placeholder pointer of a column of a
\* zero-capacity archetype (one dropped without any insert) is never passed
\* to the deallocator. A column owns an allocation when its pointer came from
\* the allocator for a non-zero number of bytes.
C21_DropReleasesOwnedBuffers ==
    dropped =>
        \A k \in 0 .. Len(arch.components) - 1 :
            LET col == arch.components[k + 1]
                calls == DeallocCalls(k)
                owns == col.data = "heap" /\ col.info.size * arch.capacity > 0
            IN  /\ Len(calls) = IF owns THEN 1 ELSE 0
                /\ \A i \in DOMAIN calls :
                       /\ calls[i].data = "heap"
                       /\ calls[i].bytes = col.info.size * Len(col.cells)

\* C24: under every sequence of insert, row read and row write calls on an
\* archetype that get_or_insert built, no runtime check fires: as_ptr finds the
\* requested type equal to the type its column records, for every type the
\* column lookup finds a column for, and the cursor that insert builds has an
\* index below the row count, namely the row count minus one.
C24_AssertionsHold ==
    /\ rres.op # "assert_panic"
    /\ \A t \in ComponentTypes : ColumnAsPtrAssert(arch, t)
    /\ row # NoRow => RowNewAssert(arch, row)
    /\ rres.op = "insert" => row = ArchLen(arch) - 1

\* C24's case: in an archetype of two columns or more that has grown to the
\* capacity get_or_insert's archetypes grow to, a written Flow value is read
\* through the cursor of a row other than the first.
C24_Witness ==
    /\ rres.op = "read"
    /\ rres.type = FlowId
    /\ rres.val # NoValue
    /\ rres.val # Uninit
    /\ row >= 1
    /\ arch.capacity = MinCapacity
    /\ Len(arch.components) >= 2

====
